---- MODULE Spec2Model ----
(***************************************************************************)
(* Model of src/src/app.js: the Express handlers of the soundboard REST    *)
(* backend.  Each handler is an async function; it runs atomically between *)
(* two awaits, so every await is a step boundary and requests in flight    *)
(* interleave at those boundaries.  The relational store, the storage      *)
(* bucket and the speech client are the shared state / environment.        *)
(*                                                                         *)
(* Strings that the code takes apart (audioUrl) are sequences of tokens,   *)
(* "/" being a token of its own; a uuid and the bucket name hold no "/".   *)
(* Calls to the speech client and the bucket may throw.  Calls to the      *)
(* relational store return, except an INSERT into a raw-SQL table that a   *)
(* key of the table may refuse (the tables' schema is not in app.js).      *)
(***************************************************************************)
EXTENDS Integers, Sequences, FiniteSets, TLC

\* ---- bounds ----
MaxRequests == 3       \* requests received in one behaviour

\* the requests in flight at once
Slots == {1, 2}

\* ---- request inputs ----
Undefined == "<undefined>"
Titles == {Undefined, "Hello"}
Texts == {"", "Halo dunia"}
Emails == {"", "a@x.com", "b@x.com"}
Owners == {"a@x.com", "b@x.com"}

BucketName == "bucket"
StorageHost == "storage.googleapis.com"

VARIABLES
  rows,        \* table Soundboards: set of rows
  objects,     \* the bucket: object name -> content
  nextUuid,    \* uuids handed out so far, plus one
  clock,       \* the time of the latest insert
  started,     \* requests received so far
  reqs,        \* slot -> the soundboard request running in it
  history,     \* table history: the rows in insertion order
  hreqs,       \* slot -> the history request running in it
  profile,     \* table profile: the rows in insertion order
  preqs        \* slot -> the profile request running in it

sbVars == <<rows, objects, nextUuid, reqs>>
histVars == <<history, hreqs>>
profVars == <<profile, preqs>>
vars == <<rows, objects, nextUuid, clock, started, reqs, history, hreqs, profile, preqs>>

\* `!v` of JavaScript on a body field
Falsy(v) == v \in {Undefined, ""}

\* uuidv4(): the n-th uuid handed out
Uuid(n) == "uuid-" \o ToString(n)

\* `${uuidv4()}.mp3`
Mp3Name(n) == <<Uuid(n), ".mp3">>

\* response.audioContent of synthesizeSpeech for the request built from text
AudioContent(text) == <<"MP3", "id-ID", "NEUTRAL", text>>

\* `https://storage.googleapis.com/${GCP_BUCKET_NAME}/${filename}`
PublicUrl(filename) ==
  <<"https:", "/", "/", StorageHost, "/", BucketName, "/">> \o filename

\* s.split("/").pop(): what follows the last "/" (all of s when there is none)
SplitPop(s) ==
  LET slashes == {i \in 1..Len(s) : s[i] = "/"}
      last == IF slashes = {} THEN 0
              ELSE CHOOSE i \in slashes : \A j \in slashes : j <= i
  IN SubSeq(s, last + 1, Len(s))

\* attributes of sequelize.define("Soundboard", ...)
SoundboardAttributes == {"id", "text", "audioUrl", "fileName", "createdByEmail"}

\* Soundboard.create(values): keys that are no attribute of the model are
\* dropped; id defaults to a fresh UUIDV4; timestamps are added.
SoundboardBuild(values, id, now) ==
  [a \in (DOMAIN values) \cap SoundboardAttributes |-> values[a]]
    @@ [id |-> id, createdAt |-> now, updatedAt |-> now]

IdleReq ==
  [kind |-> "none", pc |-> "idle",
   title |-> "", text |-> "", email |-> "", id |-> "",
   audioBuffer |-> <<>>, fileName |-> <<>>, audioUrl |-> <<>>,
   soundboards |-> <<>>, checks |-> <<>>,
   filename |-> <<>>, fileDeleteFailed |-> FALSE,
   error |-> "", status |-> 0, data |-> <<>>]

IdleHistoryReq ==
  [kind |-> "none", pc |-> "idle",
   id |-> "", title |-> "", message |-> "", is_speech_to_text |-> "", email |-> "",
   error |-> "", status |-> 0]

IdleProfileReq ==
  [kind |-> "none", pc |-> "idle", name |-> "", email |-> "",
   error |-> "", status |-> 0]

Free(r) == reqs[r].pc \in {"idle", "done"} /\ started < MaxRequests

Init ==
  /\ rows = {}
  /\ objects = <<>>
  /\ nextUuid = 1
  /\ clock = 0
  /\ started = 0
  /\ reqs = [r \in Slots |-> IdleReq]
  /\ history = <<>>
  /\ hreqs = [r \in Slots |-> IdleHistoryReq]
  /\ profile = <<>>
  /\ preqs = [r \in Slots |-> IdleProfileReq]

\* ---------------- POST /soundboards ----------------

CreateInvalidWithoutEmail(title, text, email) == Falsy(title) \/ Falsy(text)

\* if (!title || !text || !email)
CreateInvalid(title, text, email) == Falsy(title) \/ Falsy(text) \/ Falsy(email)

\* the handler up to its first await
CreatePost(r, title, text, email) ==
  /\ Free(r)
  /\ started' = started + 1
  /\ reqs' = [reqs EXCEPT ![r] =
       IF CreateInvalid(title, text, email)
       THEN [IdleReq EXCEPT !.kind = "create", !.pc = "done", !.title = title,
                            !.text = text, !.email = email, !.status = 400]
       ELSE [IdleReq EXCEPT !.kind = "create", !.pc = "generateSpeech",
                            !.title = title, !.text = text, !.email = email]]
  /\ UNCHANGED <<rows, objects, nextUuid, clock, histVars, profVars>>

\* generateSpeech resolves; fileName is made and the upload is started
CreateSpeechOk(r) ==
  /\ reqs[r].kind = "create" /\ reqs[r].pc = "generateSpeech"
  /\ reqs' = [reqs EXCEPT ![r].audioBuffer = AudioContent(reqs[r].text),
                          ![r].fileName = Mp3Name(nextUuid),
                          ![r].pc = "uploadToGCS"]
  /\ nextUuid' = nextUuid + 1
  /\ UNCHANGED <<rows, objects, clock, started, histVars, profVars>>

\* generateSpeech throws; the handler's catch answers 500
CreateSpeechFail(r) ==
  /\ reqs[r].kind = "create" /\ reqs[r].pc = "generateSpeech"
  /\ reqs' = [reqs EXCEPT ![r].error = "Error generating speech",
                          ![r].status = 500,
                          ![r].pc = "done"]
  /\ UNCHANGED <<rows, objects, nextUuid, clock, started, histVars, profVars>>

\* file.save resolves: the object is stored, uploadToGCS returns the url
CreateUploadOk(r) ==
  /\ reqs[r].kind = "create" /\ reqs[r].pc = "uploadToGCS"
  /\ objects' = (reqs[r].fileName :> reqs[r].audioBuffer) @@ objects
  /\ reqs' = [reqs EXCEPT ![r].audioUrl = PublicUrl(reqs[r].fileName),
                          ![r].pc = "create"]
  /\ UNCHANGED <<rows, nextUuid, clock, started, histVars, profVars>>

CreateUploadFailSwallowed(r) ==
  /\ reqs[r].kind = "create" /\ reqs[r].pc = "uploadToGCS"
  /\ reqs' = [reqs EXCEPT ![r].error = "Error uploading to Google Cloud Storage",
                          ![r].audioUrl = PublicUrl(reqs[r].fileName),
                          ![r].pc = "create"]
  /\ UNCHANGED <<rows, objects, nextUuid, clock, started, histVars, profVars>>

\* file.save throws; the handler's catch answers 500
CreateUploadFail(r) ==
  /\ reqs[r].kind = "create" /\ reqs[r].pc = "uploadToGCS"
  /\ reqs' = [reqs EXCEPT ![r].error = "Error uploading to Google Cloud Storage",
                          ![r].status = 500,
                          ![r].pc = "done"]
  /\ UNCHANGED <<rows, objects, nextUuid, clock, started, histVars, profVars>>

\* Soundboard.create inserts the row; the handler answers 201 with it
CreateInsert(r) ==
  /\ reqs[r].kind = "create" /\ reqs[r].pc = "create"
  /\ \E now \in {clock, clock + 1} :
       LET soundboard ==
             SoundboardBuild([text |-> reqs[r].text,
                              title |-> reqs[r].title,
                              audioUrl |-> reqs[r].audioUrl,
                              fileName |-> reqs[r].fileName,
                              createdByEmail |-> reqs[r].email],
                             Uuid(nextUuid), now)
       IN /\ rows' = rows \cup {soundboard}
          /\ clock' = now
          /\ reqs' = [reqs EXCEPT ![r].status = 201,
                                  ![r].data = soundboard,
                                  ![r].pc = "done"]
  /\ nextUuid' = nextUuid + 1
  /\ UNCHANGED <<objects, started, histVars, profVars>>

\* ---------------- GET /soundboards/:email ----------------

\* the sequences that hold every row of S once, createdAt descending
\* (ORDER BY createdAt DESC leaves the order of equal createdAt open)
OrderedDesc(S) ==
  {s \in [1..Cardinality(S) -> S] :
     /\ \A i, j \in DOMAIN s : i # j => s[i] # s[j]
     /\ \A i, j \in DOMAIN s : i < j => s[i].createdAt >= s[j].createdAt}

FindAllAnyOwner(email) == OrderedDesc(rows)

\* Soundboard.findAll({where: {createdByEmail: email}, order: [["createdAt","DESC"]]})
FindAll(email) == OrderedDesc({s \in rows : s.createdByEmail = email})

\* the closure of one map callback before its await: filename, file.exists() pending
PendingCheck(soundboard) ==
  [filename |-> SplitPop(soundboard.audioUrl), state |-> "pending", fileExists |-> FALSE]

\* findAll resolves; 404 on an empty result, else one existence check per row starts
ListGet(r, email) ==
  /\ Free(r)
  /\ started' = started + 1
  /\ \E soundboards \in FindAll(email) :
       reqs' = [reqs EXCEPT ![r] =
         IF Len(soundboards) = 0
         THEN [IdleReq EXCEPT !.kind = "list", !.pc = "done", !.email = email,
                              !.status = 404]
         ELSE [IdleReq EXCEPT !.kind = "list", !.pc = "exists", !.email = email,
                              !.soundboards = soundboards,
                              !.checks = [i \in DOMAIN soundboards |->
                                            PendingCheck(soundboards[i])]]]
  /\ UNCHANGED <<rows, objects, nextUuid, clock, histVars, profVars>>

\* file.exists() of the callback of row i resolves
ListExistsOk(r, i) ==
  /\ reqs[r].kind = "list" /\ reqs[r].pc = "exists"
  /\ i \in DOMAIN reqs[r].checks
  /\ reqs[r].checks[i].state = "pending"
  /\ reqs' = [reqs EXCEPT ![r].checks[i].state = "returned",
                          ![r].checks[i].fileExists =
                             (reqs[r].checks[i].filename \in DOMAIN objects)]
  /\ UNCHANGED <<rows, objects, nextUuid, clock, started, histVars, profVars>>

ListExistsFailRejects(r, i) ==
  /\ reqs[r].kind = "list" /\ reqs[r].pc = "exists"
  /\ i \in DOMAIN reqs[r].checks
  /\ reqs[r].checks[i].state = "pending"
  /\ reqs' = [reqs EXCEPT ![r].checks[i].state = "caught",
                          ![r].status = 500,
                          ![r].pc = "done"]
  /\ UNCHANGED <<rows, objects, nextUuid, clock, started, histVars, profVars>>

\* file.exists() of the callback of row i throws; the callback's catch returns
\* the row with fileExists: false
ListExistsFail(r, i) ==
  /\ reqs[r].kind = "list" /\ reqs[r].pc = "exists"
  /\ i \in DOMAIN reqs[r].checks
  /\ reqs[r].checks[i].state = "pending"
  /\ reqs' = [reqs EXCEPT ![r].checks[i].state = "caught",
                          ![r].checks[i].fileExists = FALSE]
  /\ UNCHANGED <<rows, objects, nextUuid, clock, started, histVars, profVars>>

ValidatedReversed(soundboards, checks) ==
  [i \in DOMAIN soundboards |->
     soundboards[i] @@ [fileExists |-> checks[Len(checks) + 1 - i].fileExists]]

\* Promise.all over the callbacks: entry i is {...soundboards[i].toJSON(), fileExists}
\* as callback i returned it
ValidatedSoundboards(soundboards, checks) ==
  [i \in DOMAIN soundboards |->
     soundboards[i] @@ [fileExists |-> checks[i].fileExists]]

\* every callback returned: Promise.all resolves and the handler answers 200
ListRespond(r) ==
  /\ reqs[r].kind = "list" /\ reqs[r].pc = "exists"
  /\ \A i \in DOMAIN reqs[r].checks : reqs[r].checks[i].state # "pending"
  /\ reqs' = [reqs EXCEPT ![r].status = 200,
                          ![r].data = ValidatedSoundboards(reqs[r].soundboards,
                                                           reqs[r].checks),
                          ![r].pc = "done"]
  /\ UNCHANGED <<rows, objects, nextUuid, clock, started, histVars, profVars>>

\* ---------------- DELETE /soundboards/:id ----------------

\* Soundboard.findByPk(id): the rows with that primary key (none: null)
FindByPk(id) == {s \in rows : s.id = id}

DeleteNotFoundThrows(r, id) ==
  /\ Free(r)
  /\ started' = started + 1
  /\ FindByPk(id) = {}
  /\ reqs' = [reqs EXCEPT ![r] =
       [IdleReq EXCEPT !.kind = "delete", !.pc = "done", !.id = id,
                       !.error = "Cannot read properties of null", !.status = 500]]
  /\ UNCHANGED <<rows, objects, nextUuid, clock, histVars, profVars>>

\* findByPk resolves with null: if (!soundboard) return 404
DeleteNotFound(r, id) ==
  /\ Free(r)
  /\ started' = started + 1
  /\ FindByPk(id) = {}
  /\ reqs' = [reqs EXCEPT ![r] =
       [IdleReq EXCEPT !.kind = "delete", !.pc = "done", !.id = id, !.status = 404]]
  /\ UNCHANGED <<rows, objects, nextUuid, clock, histVars, profVars>>

\* findByPk resolves with the row: filename is derived from its audioUrl and
\* file.delete() starts
DeleteFound(r, id) ==
  /\ Free(r)
  /\ started' = started + 1
  /\ \E soundboard \in FindByPk(id) :
       reqs' = [reqs EXCEPT ![r] =
         [IdleReq EXCEPT !.kind = "delete", !.pc = "fileDelete", !.id = id,
                         !.soundboards = <<soundboard>>,
                         !.filename = SplitPop(soundboard.audioUrl)]]
  /\ UNCHANGED <<rows, objects, nextUuid, clock, histVars, profVars>>

\* file.delete() resolves: the object is gone
DeleteFileOk(r) ==
  /\ reqs[r].kind = "delete" /\ reqs[r].pc = "fileDelete"
  /\ reqs[r].filename \in DOMAIN objects
  /\ objects' = [k \in (DOMAIN objects) \ {reqs[r].filename} |-> objects[k]]
  /\ reqs' = [reqs EXCEPT ![r].pc = "destroy"]
  /\ UNCHANGED <<rows, nextUuid, clock, started, histVars, profVars>>

DeleteFileFailAborts(r) ==
  /\ reqs[r].kind = "delete" /\ reqs[r].pc = "fileDelete"
  /\ reqs' = [reqs EXCEPT ![r].fileDeleteFailed = TRUE,
                          ![r].status = 500,
                          ![r].pc = "done"]
  /\ UNCHANGED <<rows, objects, nextUuid, clock, started, histVars, profVars>>

\* file.delete() throws (no such object, or the call failed): caught and logged
DeleteFileFail(r) ==
  /\ reqs[r].kind = "delete" /\ reqs[r].pc = "fileDelete"
  /\ reqs' = [reqs EXCEPT ![r].fileDeleteFailed = TRUE,
                          ![r].pc = "destroy"]
  /\ UNCHANGED <<rows, objects, nextUuid, clock, started, histVars, profVars>>

\* soundboard.destroy() deletes the row of that id; the handler answers 200
DeleteDestroy(r) ==
  /\ reqs[r].kind = "delete" /\ reqs[r].pc = "destroy"
  /\ rows' = {s \in rows : s.id # reqs[r].id}
  /\ reqs' = [reqs EXCEPT ![r].status = 200, ![r].pc = "done"]
  /\ UNCHANGED <<objects, nextUuid, clock, started, histVars, profVars>>

\* the ids a DELETE may name: every uuid handed out, and the next one
RequestIds == {Uuid(n) : n \in 1..nextUuid}

Next ==
  \/ \E r \in Slots, title \in Titles, text \in Texts, email \in Emails :
       CreatePost(r, title, text, email)
  \/ \E r \in Slots, email \in Owners : ListGet(r, email)
  \/ \E r \in Slots, i \in 1..MaxRequests : ListExistsOk(r, i)
  \/ \E r \in Slots, i \in 1..MaxRequests : ListExistsFail(r, i)
  \/ \E r \in Slots : ListRespond(r)
  \/ \E r \in Slots, id \in RequestIds : DeleteNotFound(r, id)
  \/ \E r \in Slots, id \in RequestIds : DeleteFound(r, id)
  \/ \E r \in Slots : DeleteFileOk(r)
  \/ \E r \in Slots : DeleteFileFail(r)
  \/ \E r \in Slots : DeleteDestroy(r)
  \/ \E r \in Slots : CreateSpeechOk(r)
  \/ \E r \in Slots : CreateSpeechFail(r)
  \/ \E r \in Slots : CreateUploadOk(r)
  \/ \E r \in Slots : CreateUploadFail(r)
  \/ \E r \in Slots : CreateInsert(r)

Spec == Init /\ [][Next]_vars

\* ---------------- /history ----------------

HistoryIds == {Undefined, "h1", "h2"}
HistoryTitles == {"", "t"}
HistoryMessages == {"m"}
SpeechFlags == {Undefined, "true", "false"}
HistoryEmails == {"", "a@x.com"}

FreeHistory(r) == hreqs[r].pc \in {"idle", "done"} /\ started < MaxRequests

\* the models app.js declares with sequelize.define; History is not among them
DeclaredModels == {"Soundboard", "Report"}

\* the rows of table history with that id
HistoryRows(id) == {i \in DOMAIN history : history[i].id = id}

\* History.findByPk(id): evaluating the undeclared identifier History throws a
\* ReferenceError; a declared model would look the row up
HistoryFindByPk(id) ==
  IF "History" \in DeclaredModels
  THEN [threw |-> FALSE, found |-> HistoryRows(id)]
  ELSE [threw |-> TRUE, found |-> {}]

\* if (!id || !title || !message || is_speech_to_text === undefined || !email)
HistoryInvalid(id, title, message, is_speech_to_text, email) ==
  \/ Falsy(id) \/ Falsy(title) \/ Falsy(message)
  \/ is_speech_to_text = Undefined
  \/ Falsy(email)

\* POST /history up to its await
HistoryPost(r, id, title, message, is_speech_to_text, email) ==
  /\ FreeHistory(r)
  /\ started' = started + 1
  /\ hreqs' = [hreqs EXCEPT ![r] =
       [IdleHistoryReq EXCEPT
          !.kind = "post", !.id = id, !.title = title, !.message = message,
          !.is_speech_to_text = is_speech_to_text, !.email = email,
          !.pc = IF HistoryInvalid(id, title, message, is_speech_to_text, email)
                 THEN "done" ELSE "insert",
          !.status = IF HistoryInvalid(id, title, message, is_speech_to_text, email)
                     THEN 400 ELSE 0]]
  /\ UNCHANGED <<sbVars, clock, history, profVars>>

\* INSERT INTO history resolves; the handler answers 201
HistoryInsertOk(r) ==
  /\ hreqs[r].kind = "post" /\ hreqs[r].pc = "insert"
  /\ \E now \in {clock, clock + 1} :
       /\ clock' = now
       /\ history' = Append(history,
            [id |-> hreqs[r].id, title |-> hreqs[r].title,
             message |-> hreqs[r].message, created_at |-> now,
             is_speech_to_text |-> hreqs[r].is_speech_to_text,
             email |-> hreqs[r].email])
  /\ hreqs' = [hreqs EXCEPT ![r].status = 201, ![r].pc = "done"]
  /\ UNCHANGED <<sbVars, started, profVars>>

\* INSERT INTO history is refused (the table's schema is not in app.js: a key
\* on id refuses a second row of that id); next(error), the middleware answers 500
HistoryInsertFail(r) ==
  /\ hreqs[r].kind = "post" /\ hreqs[r].pc = "insert"
  /\ HistoryRows(hreqs[r].id) # {}
  /\ hreqs' = [hreqs EXCEPT ![r].error = "Duplicate entry", ![r].status = 500,
                            ![r].pc = "done"]
  /\ UNCHANGED <<sbVars, clock, started, history, profVars>>

\* GET /history/:id
HistoryGetById(r, id) ==
  /\ FreeHistory(r)
  /\ started' = started + 1
  /\ LET found == HistoryFindByPk(id)
     IN hreqs' = [hreqs EXCEPT ![r] =
          [IdleHistoryReq EXCEPT
             !.kind = "get", !.id = id, !.pc = "done",
             !.error = IF found.threw THEN "History is not defined" ELSE "",
             !.status = IF found.threw THEN 500
                        ELSE IF found.found = {} THEN 404 ELSE 200]]
  /\ UNCHANGED <<sbVars, clock, history, profVars>>

\* DELETE /history/:id; history.destroy() of a found row is merged into the step
HistoryDeleteById(r, id) ==
  /\ FreeHistory(r)
  /\ started' = started + 1
  /\ LET found == HistoryFindByPk(id)
     IN /\ hreqs' = [hreqs EXCEPT ![r] =
             [IdleHistoryReq EXCEPT
                !.kind = "delete", !.id = id, !.pc = "done",
                !.error = IF found.threw THEN "History is not defined" ELSE "",
                !.status = IF found.threw THEN 500
                           ELSE IF found.found = {} THEN 404 ELSE 200]]
        /\ history' = IF found.threw \/ found.found = {} THEN history
                      ELSE SelectSeq(history, LAMBDA h : h.id # id)
  /\ UNCHANGED <<sbVars, clock, profVars>>

HistoryNext ==
  \/ \E r \in Slots, id \in HistoryIds, title \in HistoryTitles,
        message \in HistoryMessages, flag \in SpeechFlags, email \in HistoryEmails :
       HistoryPost(r, id, title, message, flag, email)
  \/ \E r \in Slots : HistoryInsertOk(r)
  \/ \E r \in Slots : HistoryInsertFail(r)
  \/ \E r \in Slots, id \in HistoryIds \ {Undefined} : HistoryGetById(r, id)
  \/ \E r \in Slots, id \in HistoryIds \ {Undefined} : HistoryDeleteById(r, id)

SpecHistory == Init /\ [][HistoryNext]_vars

\* ---------------- POST /profile ----------------

ProfileNames == {"", "n"}
ProfileEmails == {Undefined, "a@x.com", "b@x.com"}

FreeProfile(r) == preqs[r].pc \in {"idle", "done"} /\ started < MaxRequests

\* SELECT * FROM profile WHERE email = ?
ExistingProfile(email) == SelectSeq(profile, LAMBDA p : p.email = email)

\* the handler up to the end of its SELECT: 400 on a missing field, 400 when the
\* SELECT returned a row, else the INSERT is sent
ProfilePost(r, name, email) ==
  /\ FreeProfile(r)
  /\ started' = started + 1
  /\ preqs' = [preqs EXCEPT ![r] =
       [IdleProfileReq EXCEPT
          !.kind = "post", !.name = name, !.email = email,
          !.error = IF Falsy(name) \/ Falsy(email) THEN "Name and email are required"
                    ELSE IF Len(ExistingProfile(email)) > 0 THEN "Email already exists"
                    ELSE "",
          !.status = IF Falsy(name) \/ Falsy(email) THEN 400
                     ELSE IF Len(ExistingProfile(email)) > 0 THEN 400 ELSE 0,
          !.pc = IF Falsy(name) \/ Falsy(email) THEN "done"
                 ELSE IF Len(ExistingProfile(email)) > 0 THEN "done" ELSE "insert"]]
  /\ UNCHANGED <<sbVars, clock, histVars, profile>>

\* INSERT INTO profile resolves; the handler answers 201
ProfileInsertOk(r) ==
  /\ preqs[r].kind = "post" /\ preqs[r].pc = "insert"
  /\ profile' = Append(profile, [name |-> preqs[r].name, email |-> preqs[r].email])
  /\ preqs' = [preqs EXCEPT ![r].status = 201, ![r].pc = "done"]
  /\ UNCHANGED <<sbVars, clock, started, histVars>>

\* INSERT INTO profile is refused (the table's schema is not in app.js: a unique
\* key on email refuses a second row of that email); the catch answers 500
ProfileInsertFail(r) ==
  /\ preqs[r].kind = "post" /\ preqs[r].pc = "insert"
  /\ Len(ExistingProfile(preqs[r].email)) > 0
  /\ preqs' = [preqs EXCEPT ![r].error = "Duplicate entry", ![r].status = 500,
                            ![r].pc = "done"]
  /\ UNCHANGED <<sbVars, clock, started, histVars, profile>>

ProfileNext ==
  \/ \E r \in Slots, name \in ProfileNames, email \in ProfileEmails :
       ProfilePost(r, name, email)
  \/ \E r \in Slots : ProfileInsertOk(r)
  \/ \E r \in Slots : ProfileInsertFail(r)

SpecProfile == Init /\ [][ProfileNext]_vars

\* ======================= properties =======================

\* slot r holds a request that this step received (and that differs from what
\* the slot held)
Received(r, kind) ==
  /\ reqs[r].pc \in {"idle", "done"}
  /\ reqs'[r] # reqs[r]
  /\ reqs'[r].kind = kind

\* slot r holds a request in flight at pc that this step moved
Stepped(r, kind, pc) ==
  /\ reqs[r].kind = kind
  /\ reqs[r].pc = pc
  /\ reqs'[r] # reqs[r]

\* an entry of the list response without its fileExists flag
RowOf(entry) == [a \in (DOMAIN entry) \ {"fileExists"} |-> entry[a]]

\* C1: in POST /soundboards a row is inserted only by a request whose speech
\* synthesis succeeded and whose upload stored that audio under the row's
\* fileName, in that order (the stored object is the synthesized audio of the
\* row's text and is in the bucket when the row is inserted); a request whose
\* synthesis or upload failed is answered 500 in that step and the rows stay
\* as they were.
C1_InsertOnlyAfterSynthesisAndUpload ==
  [][ /\ \A s \in rows' \ rows :
           \E r \in Slots :
             /\ Stepped(r, "create", "create")
             /\ reqs'[r].status = 201
             /\ reqs[r].audioBuffer = AudioContent(reqs[r].text)
             /\ s.fileName = reqs[r].fileName
             /\ s.text = reqs[r].text
             /\ s.fileName \in DOMAIN objects
             /\ objects[s.fileName] = AudioContent(s.text)
      /\ \A r \in Slots :
           (reqs[r].kind = "create" /\ reqs[r].error = "" /\ reqs'[r].kind = "create"
              /\ reqs'[r].error # "")
           => /\ reqs[r].pc \in {"generateSpeech", "uploadToGCS"}
              /\ reqs'[r].status = 500
              /\ reqs'[r].pc = "done"
              /\ rows' = rows
    ]_vars

\* C1 witness: one Create was answered 201 with its row stored, another was
\* answered 500 after its upload failed, and the only row is the first one's.
C1_Witness ==
  \E r1, r2 \in Slots :
    /\ reqs[r1].kind = "create" /\ reqs[r1].status = 201
    /\ reqs[r2].kind = "create" /\ reqs[r2].status = 500
    /\ reqs[r2].error = "Error uploading to Google Cloud Storage"
    /\ rows = {reqs[r1].data}

\* C2: DELETE /soundboards/:id of an id that has a row first attempts the
\* storage delete and then deletes the row whatever the attempt's outcome: the
\* step after the attempt is the row delete, a failed attempt leaves the bucket
\* as it was, and the row delete removes the row and answers 200.
C2_DeleteRowWhateverStorageDoes ==
  [][ \A r \in Slots :
        /\ Stepped(r, "delete", "fileDelete")
           => /\ reqs'[r].pc = "destroy"
              /\ reqs'[r].status = 0
              /\ rows' = rows
              /\ IF reqs'[r].fileDeleteFailed
                 THEN objects' = objects
                 ELSE reqs[r].filename \notin DOMAIN objects'
        /\ Stepped(r, "delete", "destroy")
           => /\ reqs'[r].status = 200
              /\ reqs'[r].pc = "done"
              /\ reqs'[r].fileDeleteFailed = reqs[r].fileDeleteFailed
              /\ ~ \E s \in rows' : s.id = reqs[r].id
              /\ objects' = objects
    ]_vars

\* C2 witness: a DELETE whose storage delete failed was answered 200, its row
\* is gone and its object is still in the bucket.
C2_Witness ==
  \E r \in Slots :
    /\ reqs[r].kind = "delete" /\ reqs[r].pc = "done"
    /\ reqs[r].fileDeleteFailed
    /\ reqs[r].status = 200
    /\ reqs[r].filename \in DOMAIN objects
    /\ ~ \E s \in rows : s.id = reqs[r].id

\* C3: DELETE /soundboards/:id of an id with no row is answered 404 and changes
\* nothing: no storage delete is attempted, and rows and bucket are as before.
C3_DeleteNotFoundChangesNothing ==
  [][ \A r \in Slots :
        Received(r, "delete")
        => IF \E s \in rows : s.id = reqs'[r].id
           THEN reqs'[r].status = 0 /\ reqs'[r].pc = "fileDelete"
           ELSE /\ reqs'[r].status = 404
                /\ reqs'[r].pc = "done"
                /\ reqs'[r].filename = <<>>
                /\ reqs'[r].soundboards = <<>>
                /\ ~ reqs'[r].fileDeleteFailed
                /\ rows' = rows
                /\ objects' = objects
    ]_vars

\* C3 witness: a DELETE was answered 404 while a row and its object exist.
C3_Witness ==
  \E r \in Slots :
    /\ reqs[r].kind = "delete" /\ reqs[r].status = 404
    /\ rows # {}
    /\ \A s \in rows : s.fileName \in DOMAIN objects

\* C4: GET /soundboards/:email is answered 404 exactly when no row has that
\* createdByEmail at the time of the read; otherwise the rows read are exactly
\* that owner's rows, each once, and the answer is 200 with one entry per row
\* read, so a row created for that email and not deleted is in the list.
C4_ListOwnersRowsOr404 ==
  [][ \A r \in Slots :
        /\ Received(r, "list")
           => LET owned == {s \in rows : s.createdByEmail = reqs'[r].email}
              IN /\ (reqs'[r].status = 404) <=> (owned = {})
                 /\ owned = {} => reqs'[r].pc = "done"
                 /\ owned # {}
                    => /\ reqs'[r].status = 0
                       /\ reqs'[r].pc = "exists"
                       /\ Len(reqs'[r].soundboards) = Cardinality(owned)
                       /\ {reqs'[r].soundboards[i] :
                             i \in DOMAIN reqs'[r].soundboards} = owned
        /\ Stepped(r, "list", "exists")
           => /\ reqs'[r].status \in {0, 200}
              /\ reqs'[r].status = 200
                 => /\ Len(reqs'[r].data) = Len(reqs[r].soundboards)
                    /\ \A i \in DOMAIN reqs'[r].data :
                         RowOf(reqs'[r].data[i]) = reqs[r].soundboards[i]
    ]_vars

\* C4 witness: a list for one owner was answered 200 with that owner's single
\* row while another owner's row is in the table.
C4_Witness ==
  \E r \in Slots :
    /\ reqs[r].kind = "list" /\ reqs[r].status = 200
    /\ Len(reqs[r].data) = 1
    /\ reqs[r].data[1].createdByEmail = reqs[r].email
    /\ \E s \in rows : s.createdByEmail # reqs[r].email

\* C5: in ListByOwner a failed existence check of one row does not fail the
\* request: the step of the failure sets that row's fileExists to false, leaves
\* every other row's check as it was and the request running; the answer is 200
\* and carries false for the failed rows and each other row's own result.
C5_FailedCheckIsContained ==
  [][ \A r \in Slots :
        Stepped(r, "list", "exists")
        => /\ reqs'[r].status \in {0, 200}
           /\ \A i \in DOMAIN reqs[r].checks :
                (reqs[r].checks[i].state = "pending"
                   /\ reqs'[r].checks[i].state = "caught")
                => /\ reqs'[r].checks[i].fileExists = FALSE
                   /\ reqs'[r].pc = "exists"
                   /\ \A j \in DOMAIN reqs[r].checks :
                        j # i => reqs'[r].checks[j] = reqs[r].checks[j]
           /\ reqs'[r].status = 200
              => \A i \in DOMAIN reqs[r].checks :
                   /\ reqs[r].checks[i].state = "caught"
                      => reqs'[r].data[i].fileExists = FALSE
                   /\ reqs[r].checks[i].state = "returned"
                      => reqs'[r].data[i].fileExists = reqs[r].checks[i].fileExists
    ]_vars

\* C5 witness: a list was answered 200 with one row whose check failed
\* (fileExists false) and another whose check found its object (fileExists true).
C5_Witness ==
  \E r \in Slots :
    /\ reqs[r].kind = "list" /\ reqs[r].status = 200
    /\ \E i, j \in DOMAIN reqs[r].data :
         /\ reqs[r].checks[i].state = "caught"
         /\ reqs[r].data[i].fileExists = FALSE
         /\ reqs[r].checks[j].state = "returned"
         /\ reqs[r].data[j].fileExists = TRUE

\* C6: the existence checks of one list complete in any order, each reporting
\* whether the object named by its own row's fileName is in the bucket; the
\* entries of the answer are the rows in the createdAt-descending order read
\* before the checks, entry i carrying the result of check i.
C6_OrderAndResultsKept ==
  [][ \A r \in Slots :
        Stepped(r, "list", "exists")
        => /\ reqs'[r].soundboards = reqs[r].soundboards
           /\ \A i \in DOMAIN reqs[r].checks :
                (reqs[r].checks[i].state = "pending"
                   /\ reqs'[r].checks[i].state = "returned")
                => reqs'[r].checks[i].fileExists =
                     (reqs[r].soundboards[i].fileName \in DOMAIN objects)
           /\ reqs'[r].status = 200
              => /\ \A i \in DOMAIN reqs[r].checks :
                      reqs[r].checks[i].state # "pending"
                 /\ DOMAIN reqs'[r].data = DOMAIN reqs[r].soundboards
                 /\ \A i \in DOMAIN reqs'[r].data :
                      /\ RowOf(reqs'[r].data[i]) = reqs[r].soundboards[i]
                      /\ reqs'[r].data[i].fileExists = reqs[r].checks[i].fileExists
                 /\ \A i, j \in DOMAIN reqs'[r].data :
                      i < j => reqs'[r].data[i].createdAt >= reqs'[r].data[j].createdAt
    ]_vars

\* C6 witness: a list was answered 200 with two entries of different createdAt,
\* the newer first, whose checks ended differently.
C6_Witness ==
  \E r \in Slots :
    /\ reqs[r].kind = "list" /\ reqs[r].status = 200
    /\ Len(reqs[r].data) = 2
    /\ reqs[r].data[1].createdAt > reqs[r].data[2].createdAt
    /\ reqs[r].data[1].fileExists # reqs[r].data[2].fileExists

\* C7 (as claimed): GET /history/:id and DELETE /history/:id are answered 200
\* when a history row has that id and 404 when none has, and after a 200 from
\* DELETE no row has that id.
C7_HistoryByIdAsClaimed ==
  [][ \A r \in Slots :
        (hreqs'[r] # hreqs[r] /\ hreqs'[r].kind \in {"get", "delete"})
        => /\ hreqs'[r].status =
                IF \E i \in DOMAIN history : history[i].id = hreqs'[r].id
                THEN 200 ELSE 404
           /\ (hreqs'[r].kind = "delete" /\ hreqs'[r].status = 200)
              => ~ \E i \in DOMAIN history' : history'[i].id = hreqs'[r].id
    ]_vars

\* C8 (as claimed): whatever the interleaving of POST /profile requests, the
\* profile table holds at most one row per email and at most one request per
\* email was answered 201.
C8_OneProfilePerEmailAsClaimed ==
  \A e \in ProfileEmails :
    /\ Cardinality({i \in DOMAIN profile : profile[i].email = e}) <= 1
    /\ Cardinality({r \in Slots : preqs[r].status = 201 /\ preqs[r].email = e}) <= 1

\* C9: POST /soundboards is answered 400 exactly when title, text or email is
\* missing or empty; the 400 is given before any external call: the request
\* ends with no audio, no fileName and no url, and the step changes neither
\* rows nor bucket nor the uuids handed out.
C9_InvalidCreateHasNoEffect ==
  [][ \A r \in Slots :
        Received(r, "create")
        => IF \/ reqs'[r].title \in {Undefined, ""}
              \/ reqs'[r].text \in {Undefined, ""}
              \/ reqs'[r].email \in {Undefined, ""}
           THEN /\ reqs'[r].status = 400
                /\ reqs'[r].pc = "done"
                /\ reqs'[r].audioBuffer = <<>>
                /\ reqs'[r].fileName = <<>>
                /\ reqs'[r].audioUrl = <<>>
                /\ rows' = rows
                /\ objects' = objects
                /\ nextUuid' = nextUuid
           ELSE reqs'[r].status = 0 /\ reqs'[r].pc = "generateSpeech"
    ]_vars

\* C9 witness: a Create with title and text but an empty email was answered 400
\* while the table holds a row.
C9_Witness ==
  \E r \in Slots :
    /\ reqs[r].kind = "create" /\ reqs[r].status = 400
    /\ reqs[r].title = "Hello" /\ reqs[r].text = "Halo dunia" /\ reqs[r].email = ""
    /\ rows # {}

\* C10 (as claimed): the record a successful Create persists and returns
\* carries the supplied title, text and email, the generated fileName and the
\* audioUrl computed from it.
C10_RecordCarriesEveryFieldAsClaimed ==
  \A r \in Slots :
    (reqs[r].kind = "create" /\ reqs[r].status = 201)
    => /\ reqs[r].data.text = reqs[r].text
       /\ reqs[r].data.createdByEmail = reqs[r].email
       /\ reqs[r].data.fileName = reqs[r].fileName
       /\ reqs[r].data.audioUrl = reqs[r].audioUrl
       /\ "title" \in DOMAIN reqs[r].data
       /\ reqs[r].data.title = reqs[r].title

====
